---- MODULE Spec2Model ----
(***************************************************************************)
(* Model of app.py: a Streamlit script that opens four FAISS indexes,      *)
(* reads one question, queries every opened retriever through a            *)
(* RunnableMap, assembles a labelled context and asks the chat model.      *)
(*                                                                         *)
(* One behaviour is one browser session.  Streamlit executes the script    *)
(* from its first line to its last on every interaction; one such pass is  *)
(* a "run" and pc is the position of the current run in the script.        *)
(* Text is a sequence of one-character strings.                            *)
(***************************************************************************)
EXTENDS Integers, Sequences, FiniteSets, TLC

(***************************************************************************)
(* Bounds of the model.                                                    *)
(***************************************************************************)
\* script runs (interactions) in one session
MaxRuns == 2
\* largest number of documents one retriever returns for a query
MaxK == 2
\* characters by which the longest document exceeds the slice limit
LongExtra == 1

(***************************************************************************)
(* Program constants.                                                      *)
(***************************************************************************)
\* page_content[:2000]
ContextLimit == 2000

\* the four try-blocks of the script, in script order
SourceConfigs ==
    << [name |-> "youtube", folder |-> "youtube", label |-> "YouTube"],
       [name |-> "website", folder |-> "website", label |-> "Website"],
       [name |-> "pdf",     folder |-> "PDF",     label |-> "PDF"],
       [name |-> "pptx",    folder |-> "pptx",    label |-> "PowerPoint"] >>

NumSources == Len(SourceConfigs)

Sources == { SourceConfigs[i].name : i \in 1..NumSources }

SourceIndex(s) == CHOOSE i \in 1..NumSources : SourceConfigs[i].name = s

\* the characters of a registry key, as the f-string renders it
SourceText(s) ==
    CASE s = "youtube" -> << "y", "o", "u", "t", "u", "b", "e" >>
      [] s = "website" -> << "w", "e", "b", "s", "i", "t", "e" >>
      [] s = "pdf"     -> << "p", "d", "f" >>
      [] s = "pptx"    -> << "p", "p", "t", "x" >>

LabelPrefix == << "S", "o", "u", "r", "c", "e", ":", " " >>

template_head ==
    << "P", "l", "e", "a", "s", "e", " ", "a", "n", "s", "w", "e", "r", " ",
       "t", "h", "e", " ", "q", "u", "e", "s", "t", "i", "o", "n", "s", " ",
       "b", "a", "s", "e", "d", " ", "o", "n", " ", "t", "h", "e", " ", "f",
       "o", "l", "l", "o", "w", "i", "n", "g", " ", "c", "o", "n", "t", "e",
       "n", "t", " ", "a", "n", "d", " ", "y", "o", "u", "r", " ", "o", "w",
       "n", " ", "j", "u", "d", "g", "m", "e", "n", "t", ":", "\n" >>

template_mid ==
    << "\n", "Q", "u", "e", "s", "t", "i", "o", "n", ":", " " >>

\* ChatPromptTemplate.format renders its single human message as
\* "Human: <content>"
HumanPrefix == << "H", "u", "m", "a", "n", ":", " " >>

\* first argument of the st.write calls
MsgLoadError(i) == "Error loading " \o SourceConfigs[i].label \o " index:"
MsgLoaded       == "Loaded FAISS data sources successfully."
MsgInitError    == "Error initializing FAISS indexes:"
MsgNoContext    == "No relevant context found for your question."
MsgAnswer       == "Answer:"
MsgError        == "Error during retrieval or processing:"
MsgPlease       == "Please enter a question and ensure all retrievers are loaded."

(***************************************************************************)
(* Inputs of the environment.                                              *)
(***************************************************************************)
\* what the user may have typed into the text box: nothing, white space
\* only (a space, U+000B, U+00A0), a question
Questions ==
    { << >>,
      << " ", "", " " >>,
      << "h", "i", "?" >> }

\* Document objects the indexes hold, and their page_content
Docs == 1..4

NDocs == Cardinality(Docs)

\* a text longer than the slice limit, and one of exactly that length
LongText ==
    [i \in 1..(ContextLimit + LongExtra) |-> IF i <= ContextLimit THEN "x" ELSE "y"]

LimitText == [i \in 1..ContextLimit |-> "c"]

page_content(d) ==
    CASE d = 1 -> << " ", "b", "\n" >>
      [] d = 2 -> LongText
      [] d = 3 -> << >>
      [] d = 4 -> LimitText

\* the k documents retriever s returns, best match first
ResultList(s, k) ==
    [j \in 1..k |-> ((SourceIndex(s) + j - 2) % NDocs) + 1]

\* the exception object an external call raises, and the model's replies
Exc == "exc"
Answers == { "answer" }

(***************************************************************************)
(* Python helpers.                                                         *)
(***************************************************************************)
Min(a, b) == IF a <= b THEN a ELSE b

\* str.strip() removes the characters for which str.isspace() is true:
\* U+0009-U+000D, U+001C-U+001F, U+0020, U+0085, U+00A0, U+1680,
\* U+2000-U+200A, U+2028, U+2029, U+202F, U+205F and U+3000.  The second
\* line of the set holds, written as themselves, U+000B, U+001C, U+001D,
\* U+001E, U+001F, U+0085, U+00A0 and U+1680.  A string of this language
\* cannot hold a character from U+2000 on, so no text of the model has one.
Whitespace ==
    { " ", "\t", "\n", "\r", "\f",
      "", "", "", "", "", "", " ", " " }

\* x[:n]
Slice(x, n) == SubSeq(x, 1, Min(Len(x), n))

\* variant: the slice keeps one character too many
Truncate_OffByOne(x) == Slice(x, ContextLimit + 1)

\* data.page_content[:2000]
Truncate(x) == Slice(x, ContextLimit)

\* s.strip()
Strip(s) ==
    IF \A i \in 1..Len(s) : s[i] \in Whitespace
    THEN << >>
    ELSE LET n == Len(s)
             a == CHOOSE i \in 1..n :
                     /\ s[i] \notin Whitespace
                     /\ \A j \in 1..(i - 1) : s[j] \in Whitespace
             k == CHOOSE k \in 0..(n - 1) :
                     /\ s[n - k] \notin Whitespace
                     /\ \A j \in 0..(k - 1) : s[n - j] \in Whitespace
         IN  SubSeq(s, a, n - k)

\* "\n".join(parts)
RECURSIVE Join(_)
Join(parts) ==
    IF Len(parts) = 0 THEN << >>
    ELSE IF Len(parts) = 1 THEN parts[1]
    ELSE parts[1] \o << "\n" >> \o Join(Tail(parts))

\* variant: the page content is not sliced
FormatBlock_NoLimit(source, data) ==
    LabelPrefix \o SourceText(source) \o << "\n" >> \o page_content(data)

\* f"Source: {source}\n{data.page_content[:2000]}"
FormatBlock(source, data) ==
    LabelPrefix \o SourceText(source) \o << "\n" >> \o Truncate(page_content(data))

\* variant: a source without results still yields its label
BlocksOf_LabelEmpty(entry) ==
    IF Len(entry.results) = 0
    THEN << LabelPrefix \o SourceText(entry.source) \o << "\n" >> >>
    ELSE [j \in 1..Len(entry.results) |->
            FormatBlock(entry.source, entry.results[j])]

\* the items the generator expression yields for one (source, results) pair
BlocksOf(entry) ==
    [j \in 1..Len(entry.results) |-> FormatBlock(entry.source, entry.results[j])]

\* the items the generator expression yields, in iteration order of the dict
RECURSIVE Blocks(_)
Blocks(ctxs) ==
    IF Len(ctxs) = 0 THEN << >>
    ELSE BlocksOf(Head(ctxs)) \o Blocks(Tail(ctxs))

\* combined_contexts = "\n".join(... for source, results in contexts.items()
\*                                   for data in results)
CombinedContexts(ctxs) == Join(Blocks(ctxs))

\* not combined_contexts.strip()
IsBlank(c) == Strip(c) = << >>

\* variant: the question is stripped before it is put into the prompt
FormatPrompt_StripsQuestion(context, q) ==
    HumanPrefix \o template_head \o context \o template_mid \o Strip(q)

\* prompt.format(context=..., question=...)
FormatPrompt(context, q) ==
    HumanPrefix \o template_head \o context \o template_mid \o q

\* variant: the condition tests the question only
GateOpen_IgnoresRegistry(q, regs) == Len(q) > 0

\* variant: the question is stripped before it is tested
GateOpen_StripsQuestion(q, regs) == ~IsBlank(q) /\ Len(regs) > 0

\* if question and retrievers
GateOpen(q, regs) == Len(q) > 0 /\ Len(regs) > 0

\* d[key] = value on an insertion-ordered dict kept as a sequence of entries
DictSet(d, key, value) ==
    IF \E i \in 1..Len(d) : d[i].name = key
    THEN [i \in 1..Len(d) |->
            IF d[i].name = key THEN [name |-> key, handle |-> value] ELSE d[i]]
    ELSE Append(d, [name |-> key, handle |-> value])

Keys(d) == { d[i].name : i \in 1..Len(d) }

VARIABLES
    pc,               \* position of the current run in the script
    run,              \* number of the current script run
    secret_present,   \* st.secrets holds OPENAI_API_KEY
    asked,            \* the button was clicked in an earlier run of the session
    env_key,          \* os.environ holds OPENAI_API_KEY
    llm,              \* "none" or "built"
    embeddings,       \* "none", "built" or "failed"
    retrievers,       \* the dict retrievers: entries [name, handle] in insertion
                      \* order; a handle is the run that opened the index
    attempts,         \* FAISS.load_local calls of this run, per source
    load_failed,      \* sources whose load raised in this run
    display,          \* the st.write calls of this run, in order
    question,         \* value of the text box
    clicked,          \* st.button("Get Answer") returned True
    responses,        \* what each retriever did when queried in this run
    retriever_calls,  \* inputs each retriever was invoked with in this run
    contexts,         \* result of retriever_map.invoke
    combined_contexts,
    llm_calls         \* calls of the chat model in this run: prompt and outcome

vars == << pc, run, secret_present, asked, env_key, llm, embeddings, retrievers,
           attempts, load_failed, display, question,
           clicked, responses, retriever_calls, contexts, combined_contexts,
           llm_calls >>

PcOfLoad == << "load_youtube", "load_website", "load_pdf", "load_pptx" >>

\* positions at which a run is over
RunEnded == { "Crashed", "Idle", "Rejected", "NoContext", "Errored", "Done" }

\* per-run state at the first line of the script
FreshRun ==
    /\ pc = "secrets"
    /\ llm = "none"
    /\ embeddings = "none"
    /\ retrievers = << >>
    /\ attempts = [s \in Sources |-> 0]
    /\ load_failed = {}
    /\ display = << >>
    /\ question = << >>
    /\ clicked = FALSE
    /\ responses = << >>
    /\ retriever_calls = [s \in Sources |-> << >>]
    /\ contexts = << >>
    /\ combined_contexts = << >>
    /\ llm_calls = << >>

Init ==
    /\ FreshRun
    /\ run = 1
    /\ secret_present \in BOOLEAN
    /\ asked = FALSE
    /\ env_key = FALSE

\* variant: a missing secret is passed over and the script goes on
SetApiKey_Tolerant ==
    /\ pc = "secrets"
    /\ env_key' = (env_key \/ secret_present)
    /\ pc' = "llm"
    /\ UNCHANGED << run, secret_present, asked, llm, embeddings, retrievers,
                    attempts, load_failed, display, question, clicked,
                    responses, retriever_calls, contexts, combined_contexts,
                    llm_calls >>

\* line 11: os.environ["OPENAI_API_KEY"] = st.secrets["OPENAI_API_KEY"]
SetApiKey ==
    /\ pc = "secrets"
    /\ IF secret_present
       THEN /\ env_key' = TRUE
            /\ pc' = "llm"
       ELSE /\ env_key' = env_key
            /\ pc' = "Crashed"
    /\ UNCHANGED << run, secret_present, asked, llm, embeddings, retrievers, attempts,
                    load_failed, display, question, clicked,
                    responses, retriever_calls, contexts, combined_contexts,
                    llm_calls >>

\* lines 14-24: title, ChatOpenAI, parser, prompt template
InitLLM ==
    /\ pc = "llm"
    /\ llm' = "built"
    /\ pc' = "embeddings"
    /\ UNCHANGED << run, secret_present, asked, env_key, embeddings, retrievers,
                    attempts, load_failed, display, question,
                    clicked, responses, retriever_calls, contexts,
                    combined_contexts, llm_calls >>

\* lines 27-29 and 69-70: retrievers = {}; embeddings = OpenAIEmbeddings()
InitEmbeddings ==
    /\ pc = "embeddings"
    /\ retrievers' = << >>
    /\ \E ok \in BOOLEAN :
          IF ok
          THEN /\ embeddings' = "built"
               /\ display' = display
               /\ pc' = PcOfLoad[1]
          ELSE /\ embeddings' = "failed"
               /\ display' = Append(display, << MsgInitError, Exc >>)
               /\ pc' = "input"
    /\ UNCHANGED << run, secret_present, asked, env_key, llm, attempts, load_failed,
                    question, clicked, responses,
                    retriever_calls, contexts, combined_contexts, llm_calls >>

\* where the script continues after the try-block of source i
AfterLoad(i) == IF i < NumSources THEN PcOfLoad[i + 1] ELSE "loaded"

\* variant: the except clause writes nothing
LoadOutcome_Silent(i, ok, regs, shown, handle) ==
    IF ok
    THEN [retrievers |-> DictSet(regs, SourceConfigs[i].name, handle),
          display    |-> shown]
    ELSE [retrievers |-> regs, display |-> shown]

\* the effect of one try-block on the registry and on the page
LoadOutcome(i, ok, regs, shown, handle) ==
    IF ok
    THEN [retrievers |-> DictSet(regs, SourceConfigs[i].name, handle),
          display    |-> shown]
    ELSE [retrievers |-> regs,
          display    |-> Append(shown, << MsgLoadError(i), Exc >>)]

\* variant: no try-block of its own, so a failing load falls through to the
\* outer except clause and the remaining sources are skipped
LoadIndex_AbortOnFailure(i) ==
    /\ pc = PcOfLoad[i]
    /\ \E ok \in BOOLEAN :
          LET s == SourceConfigs[i].name
          IN  /\ retrievers' = IF ok THEN DictSet(retrievers, s, run)
                               ELSE retrievers
              /\ display' = IF ok THEN display
                            ELSE Append(display, << MsgInitError, Exc >>)
              /\ load_failed' = IF ok THEN load_failed ELSE load_failed \cup {s}
              /\ attempts' = [attempts EXCEPT ![s] = @ + 1]
              /\ pc' = IF ok THEN AfterLoad(i) ELSE "input"
    /\ UNCHANGED << run, secret_present, asked, env_key, llm, embeddings, question,
                    clicked, responses, retriever_calls, contexts,
                    combined_contexts, llm_calls >>

\* variant: the opened index is cached for the session, so a later run takes
\* the retriever of the first run and does not call FAISS.load_local
LoadIndex_Cached(i) ==
    /\ pc = PcOfLoad[i]
    /\ IF run = 1
       THEN \E ok \in BOOLEAN :
               LET s   == SourceConfigs[i].name
                   out == LoadOutcome(i, ok, retrievers, display, run)
               IN  /\ retrievers' = out.retrievers
                   /\ display' = out.display
                   /\ load_failed' = IF ok THEN load_failed ELSE load_failed \cup {s}
                   /\ attempts' = [attempts EXCEPT ![s] = @ + 1]
       ELSE /\ retrievers' = DictSet(retrievers, SourceConfigs[i].name, 1)
            /\ UNCHANGED << display, load_failed, attempts >>
    /\ pc' = AfterLoad(i)
    /\ UNCHANGED << run, secret_present, asked, env_key, llm, embeddings, question,
                    clicked, responses, retriever_calls, contexts,
                    combined_contexts, llm_calls >>

\* lines 32-66: one try-block, FAISS.load_local(...).as_retriever()
LoadIndex(i) ==
    /\ pc = PcOfLoad[i]
    /\ \E ok \in BOOLEAN :
          LET s   == SourceConfigs[i].name
              out == LoadOutcome(i, ok, retrievers, display, run)
          IN  /\ retrievers' = out.retrievers
              /\ display' = out.display
              /\ load_failed' = IF ok THEN load_failed ELSE load_failed \cup {s}
              /\ attempts' = [attempts EXCEPT ![s] = @ + 1]
    /\ pc' = AfterLoad(i)
    /\ UNCHANGED << run, secret_present, asked, env_key, llm, embeddings, question,
                    clicked, responses, retriever_calls, contexts,
                    combined_contexts, llm_calls >>

\* line 68
WriteLoaded ==
    /\ pc = "loaded"
    /\ display' = Append(display, << MsgLoaded >>)
    /\ pc' = "input"
    /\ UNCHANGED << run, secret_present, asked, env_key, llm, embeddings, retrievers,
                    attempts, load_failed, question, clicked,
                    responses, retriever_calls, contexts, combined_contexts,
                    llm_calls >>

\* lines 73 and 76: the text box and the button
ReadInput ==
    /\ pc = "input"
    /\ \E q \in Questions, c \in BOOLEAN :
          /\ question' = q
          /\ clicked' = c
          /\ pc' = IF c THEN "gate" ELSE "Idle"
    /\ UNCHANGED << run, secret_present, asked, env_key, llm, embeddings, retrievers,
                    attempts, load_failed, display,
                    responses, retriever_calls, contexts, combined_contexts,
                    llm_calls >>

\* variant: the block remembers that a question was asked before and turns
\* every later submission of the session away
Gate_OncePerSession ==
    /\ pc = "gate"
    /\ IF GateOpen(question, retrievers) /\ ~asked
       THEN /\ pc' = "retrieve"
            /\ display' = display
       ELSE /\ pc' = "Rejected"
            /\ display' = Append(display, << MsgPlease >>)
    /\ UNCHANGED << run, secret_present, asked, env_key, llm, embeddings,
                    retrievers, attempts, load_failed, question, clicked,
                    responses, retriever_calls, contexts, combined_contexts,
                    llm_calls >>

\* lines 77 and 106-107
Gate ==
    /\ pc = "gate"
    /\ IF GateOpen(question, retrievers)
       THEN /\ pc' = "retrieve"
            /\ display' = display
       ELSE /\ pc' = "Rejected"
            /\ display' = Append(display, << MsgPlease >>)
    /\ UNCHANGED << run, secret_present, asked, env_key, llm, embeddings, retrievers,
                    attempts, load_failed, question, clicked,
                    responses, retriever_calls, contexts, combined_contexts,
                    llm_calls >>

\* variant: a step that raises contributes an empty result list
InvokeMap_Isolating(resp) ==
    [raised |-> FALSE,
     value  |-> [i \in 1..Len(resp) |->
                   [source  |-> resp[i].source,
                    results |-> IF resp[i].raised THEN << >> ELSE resp[i].docs]]]

\* variant: the result dict lists the steps last to first
InvokeMap_Reversed(resp) ==
    IF \E i \in 1..Len(resp) : resp[i].raised
    THEN [raised |-> TRUE, value |-> << >>]
    ELSE [raised |-> FALSE,
          value  |-> [i \in 1..Len(resp) |->
                        [source  |-> resp[Len(resp) + 1 - i].source,
                         results |-> resp[Len(resp) + 1 - i].docs]]]

\* variant: only an exception of the first step is re-raised, a later step
\* that raised counts as having found nothing
InvokeMap_FirstOnly(resp) ==
    IF Len(resp) > 0 /\ resp[1].raised
    THEN [raised |-> TRUE, value |-> << >>]
    ELSE [raised |-> FALSE,
          value  |-> [i \in 1..Len(resp) |->
                        [source  |-> resp[i].source,
                         results |-> IF resp[i].raised THEN << >>
                                     ELSE resp[i].docs]]]

\* what retriever_map.invoke({"input": question}) yields from the outcomes of
\* its steps: RunnableParallel runs every step, re-raises a step's exception,
\* and otherwise returns a dict with the keys in the order of the steps
InvokeMap(resp) ==
    IF \E i \in 1..Len(resp) : resp[i].raised
    THEN [raised |-> TRUE, value |-> << >>]
    ELSE [raised |-> FALSE,
          value  |-> [i \in 1..Len(resp) |->
                        [source |-> resp[i].source, results |-> resp[i].docs]]]

\* lines 79-84 and 104-105
Retrieve ==
    /\ pc = "retrieve"
    /\ \E r \in [1..Len(retrievers) -> (-1)..MaxK] :
          LET resp == [i \in 1..Len(retrievers) |->
                         [source |-> retrievers[i].name,
                          raised |-> r[i] = -1,
                          docs   |-> IF r[i] = -1 THEN << >>
                                     ELSE ResultList(retrievers[i].name, r[i])]]
              res  == InvokeMap(resp)
          IN  /\ responses' = resp
              /\ IF res.raised
                 THEN /\ contexts' = contexts
                      /\ display' = Append(display, << MsgError, Exc >>)
                      /\ pc' = "Errored"
                 ELSE /\ contexts' = res.value
                      /\ display' = display
                      /\ pc' = "assemble"
    /\ retriever_calls' =
          [s \in Sources |->
              IF s \in Keys(retrievers)
              THEN Append(retriever_calls[s], [input |-> question])
              ELSE retriever_calls[s]]
    /\ UNCHANGED << run, secret_present, asked, env_key, llm, embeddings, retrievers,
                    attempts, load_failed, question, clicked,
                    combined_contexts, llm_calls >>

\* variant: st.stop() returns and the script goes on
Assemble_NoStop ==
    /\ pc = "assemble"
    /\ combined_contexts' = CombinedContexts(contexts)
    /\ display' = IF IsBlank(combined_contexts')
                  THEN Append(display, << MsgNoContext >>)
                  ELSE display
    /\ pc' = "generate"
    /\ UNCHANGED << run, secret_present, asked, env_key, llm, embeddings, retrievers,
                    attempts, load_failed, question, clicked,
                    responses, retriever_calls, contexts, llm_calls >>

\* lines 85-94; st.stop() ends the run: it raises Streamlit's StopException,
\* a BaseException, which "except Exception" does not catch
Assemble ==
    /\ pc = "assemble"
    /\ combined_contexts' = CombinedContexts(contexts)
    /\ IF IsBlank(combined_contexts')
       THEN /\ display' = Append(display, << MsgNoContext >>)
            /\ pc' = "NoContext"
       ELSE /\ display' = display
            /\ pc' = "generate"
    /\ UNCHANGED << run, secret_present, asked, env_key, llm, embeddings, retrievers,
                    attempts, load_failed, question, clicked,
                    responses, retriever_calls, contexts, llm_calls >>

\* variant: the error line is written behind the answer as well
GenerateOutcome_WritesBoth(out, shown) ==
    IF out = Exc
    THEN [display |-> Append(shown, << MsgError, Exc >>), pc |-> "Errored"]
    ELSE [display |-> Append(Append(shown, << MsgAnswer, out >>),
                             << MsgError, Exc >>),
          pc      |-> "Done"]

\* variant: the exception of the model call is swallowed
GenerateOutcome_Silent(out, shown) ==
    IF out = Exc
    THEN [display |-> shown, pc |-> "Done"]
    ELSE [display |-> Append(shown, << MsgAnswer, out >>), pc |-> "Done"]

\* the effect of the generation block on the page and on the position
GenerateOutcome(out, shown) ==
    IF out = Exc
    THEN [display |-> Append(shown, << MsgError, Exc >>), pc |-> "Errored"]
    ELSE [display |-> Append(shown, << MsgAnswer, out >>), pc |-> "Done"]

\* variant: a failed model call is made a second time
Generate_RetryOnce ==
    /\ pc = "generate"
    /\ \E out \in Answers \cup {Exc}, again \in Answers \cup {Exc} :
          LET formatted_prompt == FormatPrompt(combined_contexts, question)
              first == [prompt |-> formatted_prompt, outcome |-> out]
              second == [prompt |-> formatted_prompt, outcome |-> again]
              res == GenerateOutcome(IF out = Exc THEN again ELSE out, display)
          IN  /\ llm_calls' = IF out = Exc
                              THEN Append(Append(llm_calls, first), second)
                              ELSE Append(llm_calls, first)
              /\ display' = res.display
              /\ pc' = res.pc
    /\ UNCHANGED << run, secret_present, asked, env_key, llm, embeddings,
                    retrievers, attempts, load_failed, question, clicked,
                    responses, retriever_calls, contexts, combined_contexts >>

\* lines 96-105
Generate ==
    /\ pc = "generate"
    /\ \E out \in Answers \cup {Exc} :
          LET formatted_prompt == FormatPrompt(combined_contexts, question)
              res == GenerateOutcome(out, display)
          IN  /\ llm_calls' = Append(llm_calls, [prompt  |-> formatted_prompt,
                                                 outcome |-> out])
              /\ display' = res.display
              /\ pc' = res.pc
    /\ UNCHANGED << run, secret_present, asked, env_key, llm, embeddings, retrievers,
                    attempts, load_failed, question, clicked,
                    responses, retriever_calls, contexts, combined_contexts >>

\* the next interaction: Streamlit executes the script again from line 1
Rerun ==
    /\ pc \in RunEnded
    /\ run < MaxRuns
    /\ run' = run + 1
    /\ pc' = "secrets"
    /\ llm' = "none"
    /\ embeddings' = "none"
    /\ retrievers' = << >>
    /\ attempts' = [s \in Sources |-> 0]
    /\ load_failed' = {}
    /\ display' = << >>
    /\ question' = << >>
    /\ clicked' = FALSE
    /\ responses' = << >>
    /\ retriever_calls' = [s \in Sources |-> << >>]
    /\ contexts' = << >>
    /\ combined_contexts' = << >>
    /\ llm_calls' = << >>
    /\ asked' = (asked \/ clicked)
    /\ UNCHANGED << secret_present, env_key >>

Next ==
    \/ SetApiKey
    \/ InitLLM
    \/ InitEmbeddings
    \/ \E i \in 1..NumSources : LoadIndex(i)
    \/ WriteLoaded
    \/ ReadInput
    \/ Gate
    \/ Retrieve
    \/ Assemble
    \/ Generate
    \/ Rerun

Spec == Init /\ [][Next]_vars

TypeOK ==
    /\ pc \in RunEnded \cup { "secrets", "llm", "embeddings", "loaded", "input",
                              "gate", "retrieve", "assemble", "generate" }
                       \cup { PcOfLoad[i] : i \in 1..NumSources }
    /\ run \in 1..MaxRuns
    /\ Keys(retrievers) \subseteq Sources
    /\ Len(display) <= NumSources + 3

(***************************************************************************)
(* Vocabulary of the properties.                                           *)
(***************************************************************************)
\* a st.write call of this run started with this text
Shown(text) == \E k \in 1..Len(display) : display[k][1] = text

LastShown == display[Len(display)]

\* retrievers that raised when queried in this run
Raisers == { i \in 1..Len(responses) : responses[i].raised }

\* the join of line 85 has been computed in this run
Assembled ==
    \/ pc \in { "generate", "NoContext", "Done" }
    \/ pc = "Errored" /\ llm_calls # << >>

\* the run stands right behind the join of line 85 and its strip() test
JustAssembled == pc \in { "generate", "NoContext" }

NoBackendWork ==
    /\ \A s \in Sources : retriever_calls[s] = << >>
    /\ llm_calls = << >>

(***************************************************************************)
(* C1 as stated: with at least two retrievers queried and exactly one of   *)
(* them raising, the results of the others are kept and the run does not   *)
(* end in the retrieval error.                                             *)
(***************************************************************************)
C1_Isolation_AsStated ==
    (Len(responses) >= 2 /\ Cardinality(Raisers) = 1) =>
        /\ pc # "Errored" \/ llm_calls # << >>
        /\ \A i \in 1..Len(responses) :
              i \notin Raisers =>
                 \E k \in 1..Len(contexts) :
                    /\ contexts[k].source = responses[i].source
                    /\ contexts[k].results = responses[i].docs

\* C1 (amended): with at least two retrievers queried and exactly one of them
\* raising, the run ends with the error message, no context is assembled
\* from the results of the others, and the chat model is not called.
C1_FailureEndsCycle ==
    (Len(responses) >= 2 /\ Cardinality(Raisers) = 1) =>
        /\ pc = "Errored"
        /\ LastShown = << MsgError, Exc >>
        /\ contexts = << >>
        /\ combined_contexts = << >>
        /\ llm_calls = << >>
        /\ ~Shown(MsgAnswer)

C1_Witness ==
    /\ pc = "Errored"
    /\ Len(responses) >= 2
    /\ Cardinality(Raisers) = 1
    /\ \E i \in 1..Len(responses) : i \notin Raisers /\ responses[i].docs # << >>

(***************************************************************************)
(* C2: for a question that is empty or all whitespace, no retriever is     *)
(* queried and the chat model is not called.                               *)
(***************************************************************************)
C2_InputGate ==
    IsBlank(question) => NoBackendWork

(***************************************************************************)
(* C3 as stated: a submission with an empty registry ends with the         *)
(* no-context message and without a call of the chat model.                *)
(***************************************************************************)
C3_EmptyRegistry_AsStated ==
    (clicked /\ ~IsBlank(question) /\ retrievers = << >> /\ pc \in RunEnded) =>
        /\ pc = "NoContext"
        /\ Shown(MsgNoContext)
        /\ llm_calls = << >>

\* C3 (amended): a submission with an empty registry ends with the
\* please-enter-a-question message, the no-context message is not shown,
\* and neither a retriever nor the chat model is called.
C3_EmptyRegistryRejected ==
    (clicked /\ retrievers = << >> /\ pc \in RunEnded) =>
        /\ pc = "Rejected"
        /\ LastShown = << MsgPlease >>
        /\ ~Shown(MsgNoContext)
        /\ ~Shown(MsgAnswer)
        /\ NoBackendWork

C3_Witness ==
    /\ pc = "Rejected"
    /\ clicked
    /\ Len(question) > 0
    /\ ~IsBlank(question)
    /\ load_failed = Sources
    /\ retrievers = << >>

(***************************************************************************)
(* C4: when the assembled context is blank after strip(), and so when      *)
(* every queried retriever returned an empty list, the no-context message  *)
(* is shown, the chat model is not called and no answer is shown.          *)
(***************************************************************************)
C4_EmptyContextShortCircuit ==
    (Assembled /\ ( \/ IsBlank(combined_contexts)
                    \/ \A i \in 1..Len(responses) : responses[i].docs = << >> )) =>
        /\ pc = "NoContext"
        /\ LastShown = << MsgNoContext >>
        /\ llm_calls = << >>
        /\ ~Shown(MsgAnswer)
        /\ ~Shown(MsgError)

C4_Witness ==
    /\ pc = "NoContext"
    /\ Len(responses) >= 2
    /\ \A i \in 1..Len(responses) : ~responses[i].raised /\ responses[i].docs = << >>
    /\ Shown(MsgNoContext)

(***************************************************************************)
(* C5: when the call of the chat model raises, the run ends in Errored     *)
(* with the error message, which is neither the no-context message nor     *)
(* the answer message, and no answer is shown.                             *)
(***************************************************************************)
C5_GenerationErrorVisible ==
    (\E k \in 1..Len(llm_calls) : llm_calls[k].outcome = Exc) =>
        /\ pc = "Errored"
        /\ LastShown = << MsgError, Exc >>
        /\ LastShown[1] \notin { MsgNoContext, MsgAnswer, MsgPlease }
        /\ ~Shown(MsgAnswer)
        /\ ~Shown(MsgNoContext)

C5_Witness ==
    /\ pc = "Errored"
    /\ Len(llm_calls) = 1
    /\ llm_calls[1].outcome = Exc
    /\ ~IsBlank(combined_contexts)

(***************************************************************************)
(* C6: whichever loads raise, every source is attempted exactly once, in   *)
(* script order, the script does not crash, and the registry holds         *)
(* exactly the sources whose load succeeded.                               *)
(***************************************************************************)
LoadPcs == { PcOfLoad[i] : i \in 1..NumSources }

C6_RegistryToleratesLoadFailure ==
    /\ \A i \in 1..NumSources :
          pc = PcOfLoad[i] =>
             \A j \in 1..NumSources :
                attempts[SourceConfigs[j].name] = IF j < i THEN 1 ELSE 0
    /\ (embeddings = "built" /\ pc \notin LoadPcs) =>
          /\ \A s \in Sources : attempts[s] = 1
          /\ Keys(retrievers) = Sources \ load_failed
          /\ Len(retrievers) = Cardinality(Keys(retrievers))
          /\ pc # "Crashed"

C6_Witness ==
    /\ pc = "input"
    /\ embeddings = "built"
    /\ load_failed = { "youtube", "pdf" }
    /\ Keys(retrievers) = { "website", "pptx" }

(***************************************************************************)
(* C7: a load-failure message naming the source is shown for every source  *)
(* whose load raised and for no other source.                              *)
(***************************************************************************)
C7_LoadFailureReported ==
    /\ \A i \in 1..NumSources :
          SourceConfigs[i].name \in load_failed <=>
             \E k \in 1..Len(display) : display[k] = << MsgLoadError(i), Exc >>
    /\ \A i, j \in 1..NumSources : i # j => MsgLoadError(i) # MsgLoadError(j)

C7_Witness ==
    /\ pc = "input"
    /\ load_failed = { "website", "pptx" }
    /\ Shown(MsgLoadError(2))
    /\ Shown(MsgLoadError(4))
    /\ ~Shown(MsgLoadError(1))

(***************************************************************************)
(* Reading the assembled context back.                                     *)
(***************************************************************************)
\* positions at which a line "Source: ..." starts
LabelStarts(s) ==
    { p \in 1..Len(s) :
         /\ s[p] = LabelPrefix[1]
         /\ p = 1 \/ s[p - 1] = "\n"
         /\ p + Len(LabelPrefix) - 1 <= Len(s)
         /\ SubSeq(s, p, p + Len(LabelPrefix) - 1) = LabelPrefix }

RECURSIVE Ascending(_)
Ascending(S) ==
    IF S = {} THEN << >>
    ELSE LET m == CHOOSE x \in S : \A y \in S : x <= y
         IN  << m >> \o Ascending(S \ {m})

\* end of the line that starts at p
LineEnd(s, p) ==
    IF \E e \in p..Len(s) : s[e] = "\n"
    THEN CHOOSE e \in p..Len(s) :
            s[e] = "\n" /\ \A j \in p..(e - 1) : s[j] # "\n"
    ELSE Len(s) + 1

\* the labelled blocks found in s: the key on the label line and the text
\* up to the line break before the next label
ParsedBlocks(s) ==
    LET starts == Ascending(LabelStarts(s))
    IN  [k \in 1..Len(starts) |->
           LET p == starts[k]
               q == IF k < Len(starts) THEN starts[k + 1] ELSE Len(s) + 2
               e == LineEnd(s, p)
           IN  [source |-> SubSeq(s, p + Len(LabelPrefix), e - 1),
                text   |-> SubSeq(s, e + 1, q - 2)]]

\* t is the first n characters of x, or all of x when x is shorter
IsFirstChars(t, x, n) ==
    /\ Len(t) = IF Len(x) < n THEN Len(x) ELSE n
    /\ t = SubSeq(x, 1, Len(t))

\* the documents retriever s returned in this run
ReturnedBy(s) ==
    IF \E i \in 1..Len(responses) : responses[i].source = s
    THEN responses[CHOOSE i \in 1..Len(responses) : responses[i].source = s].docs
    ELSE << >>

\* position of the source with this key text in the script
RankOfText(t) ==
    IF \E i \in 1..NumSources : SourceText(SourceConfigs[i].name) = t
    THEN CHOOSE i \in 1..NumSources : SourceText(SourceConfigs[i].name) = t
    ELSE 0

(***************************************************************************)
(* C8: in the assembled context no block of a later source precedes a      *)
(* block of an earlier source (script order youtube, website, pdf, pptx),  *)
(* and the blocks of one source are its documents in the returned order.   *)
(***************************************************************************)
C8_ContextOrder ==
    JustAssembled =>
        LET blocks == ParsedBlocks(combined_contexts)
        IN  /\ \A k \in 1..Len(blocks) : RankOfText(blocks[k].source) > 0
            /\ \A k \in 1..(Len(blocks) - 1) :
                  RankOfText(blocks[k].source) <= RankOfText(blocks[k + 1].source)
            /\ \A s \in Sources :
                  LET mine(b) == b.source = SourceText(s)
                      own     == SelectSeq(blocks, mine)
                      docs    == ReturnedBy(s)
                  IN  /\ Len(own) = Len(docs)
                      /\ \A j \in 1..Len(own) :
                            IsFirstChars(own[j].text, page_content(docs[j]),
                                         ContextLimit)

C8_Witness ==
    /\ JustAssembled
    /\ Len(responses) >= 3
    /\ \E i, j \in 1..Len(responses) :
          /\ i < j
          /\ Len(responses[i].docs) >= 2
          /\ Len(responses[j].docs) >= 2
          /\ responses[i].docs[1] # responses[i].docs[2]

\* the documents of this run in the order the claim prescribes
RECURSIVE ReturnedInOrder(_)
ReturnedInOrder(i) ==
    IF i > NumSources THEN << >>
    ELSE ReturnedBy(SourceConfigs[i].name) \o ReturnedInOrder(i + 1)

(***************************************************************************)
(* C9: the text a document contributes is the first min(len, 2000)         *)
(* characters of its page_content, so at most 2000 characters; truncating  *)
(* twice equals truncating once; content of at most 2000 characters is     *)
(* left unchanged.                                                         *)
(***************************************************************************)
C9_SnippetBudget ==
    JustAssembled =>
        LET blocks == ParsedBlocks(combined_contexts)
            docs   == ReturnedInOrder(1)
        IN  /\ Len(blocks) = Len(docs)
            /\ \A k \in 1..Len(blocks) :
                  LET x == page_content(docs[k])
                      t == blocks[k].text
                  IN  /\ Len(t) <= ContextLimit
                      /\ IsFirstChars(t, x, ContextLimit)
                      /\ Truncate(t) = t
                      /\ Truncate(Truncate(x)) = Truncate(x)
                      /\ Len(x) <= ContextLimit => Truncate(x) = x

C9_Witness ==
    /\ JustAssembled
    /\ \E i \in 1..Len(responses) : \E j \in 1..Len(responses[i].docs) :
          Len(page_content(responses[i].docs[j])) > ContextLimit
    /\ \E i \in 1..Len(responses) : \E j \in 1..Len(responses[i].docs) :
          Len(page_content(responses[i].docs[j])) < ContextLimit
    /\ Len(combined_contexts) > ContextLimit
    /\ LET blocks == ParsedBlocks(combined_contexts)
       IN  \E k \in 1..Len(blocks) : Len(blocks[k].text) = ContextLimit

\* positions at which pat occurs in s
Occurrences(s, pat) ==
    { p \in 1..(Len(s) - Len(pat) + 1) :
         /\ s[p] = pat[1]
         /\ SubSeq(s, p, p + Len(pat) - 1) = pat }

\* s[p:] starts with pat
StartsAt(s, p, pat) ==
    /\ p + Len(pat) - 1 <= Len(s)
    /\ SubSeq(s, p, p + Len(pat) - 1) = pat

RECURSIVE TotalReturned(_)
TotalReturned(i) ==
    IF i > Len(responses) THEN 0
    ELSE Len(responses[i].docs) + TotalReturned(i + 1)

(***************************************************************************)
(* C10: the assembled context holds, for every source, as many             *)
(* "Source: <key>" labels as the source returned documents, none for a     *)
(* source that returned an empty list, and as many labels in all as        *)
(* documents were returned.                                                *)
(***************************************************************************)
C10_BlockCount ==
    JustAssembled =>
        LET labels == Occurrences(combined_contexts, LabelPrefix)
        IN  /\ \A s \in Sources :
                  Cardinality({ p \in labels :
                                   StartsAt(combined_contexts, p,
                                            LabelPrefix \o SourceText(s)) })
                     = Len(ReturnedBy(s))
            /\ Cardinality(labels) = TotalReturned(1)

C10_Witness ==
    /\ JustAssembled
    /\ combined_contexts # << >>
    /\ \E i, j \in 1..Len(responses) :
          /\ responses[i].docs = << >>
          /\ Len(responses[j].docs) >= 2

(***************************************************************************)
(* C11 as stated: once a question has been submitted in the session, no    *)
(* index is opened any more and the registry in use is the one built       *)
(* before that question.                                                   *)
(***************************************************************************)
C11_RegistryReuse_AsStated ==
    asked =>
        /\ \A s \in Sources : attempts[s] = 0
        /\ \A i \in 1..Len(retrievers) : retrievers[i].handle < run

\* C11 (amended): every run of the script builds its own registry.  A run
\* opens each source at most once, and exactly once when the embedding
\* client was constructed, also after an earlier question of the session;
\* the registry a question cycle uses was opened in that same run, and no
\* index is opened once the loading block is left.
C11_RegistryRebuiltEachRun ==
    /\ \A s \in Sources : attempts[s] <= 1
    /\ \A i \in 1..Len(retrievers) : retrievers[i].handle = run
    /\ (embeddings = "built" /\ pc \notin LoadPcs) =>
          \A s \in Sources : attempts[s] = 1

C11_Witness ==
    /\ asked
    /\ run = 2
    /\ clicked
    /\ pc = "Done"
    /\ Len(retrievers) = NumSources
    /\ \A s \in Sources : attempts[s] = 1

(***************************************************************************)
(* Sizes.                                                                  *)
(***************************************************************************)
\* the largest number of documents one retriever returned in this run
MaxReturned ==
    IF responses = << >> THEN 0
    ELSE LET lens == { Len(responses[i].docs) : i \in 1..Len(responses) }
         IN  CHOOSE m \in lens : \A n \in lens : n <= m

\* length of the longest label line "Source: <key>\n"
LabelLineMax ==
    LET lens == { Len(SourceText(s)) : s \in Sources }
    IN  Len(LabelPrefix) + (CHOOSE m \in lens : \A n \in lens : n <= m) + 1

RECURSIVE TextTotal(_)
TextTotal(blocks) ==
    IF blocks = << >> THEN 0
    ELSE Len(Head(blocks).text) + TextTotal(Tail(blocks))

(***************************************************************************)
(* C12 as stated: the assembled context has at most N * K * 2000           *)
(* characters, N the number of queried retrievers and K the largest        *)
(* number of documents one of them returned.                               *)
(***************************************************************************)
C12_SizeBound_AsStated ==
    JustAssembled =>
        Len(combined_contexts) <= Len(responses) * MaxReturned * ContextLimit

\* C12 (amended): the document texts in the assembled context have at most
\* N * K * 2000 characters in all; the whole string, with its label lines
\* and joining line breaks, has at most N * K * (2000 + 17) characters.
C12_SizeBoundWithLabels ==
    JustAssembled =>
        LET blocks == ParsedBlocks(combined_contexts)
            cells  == Len(responses) * MaxReturned
        IN  /\ TextTotal(blocks) <= cells * ContextLimit
            /\ Len(combined_contexts) <= cells * (ContextLimit + LabelLineMax + 1)
            /\ Len(combined_contexts) >= TextTotal(blocks)

C12_Witness ==
    /\ JustAssembled
    /\ Len(responses) >= 2
    /\ Len(combined_contexts) > Len(responses) * MaxReturned * ContextLimit
    /\ TextTotal(ParsedBlocks(combined_contexts))
          = Len(responses) * MaxReturned * ContextLimit

(***************************************************************************)
(* Outcomes of a submission.                                               *)
(***************************************************************************)
\* the four messages the "Get Answer" block can write
OutcomeTexts == { MsgAnswer, MsgPlease, MsgNoContext, MsgError }

OutcomeLines == { k \in 1..Len(display) : display[k][1] \in OutcomeTexts }

\* the message that belongs to the way a submission ended
OutcomeTextOf(p) ==
    CASE p = "Done"      -> MsgAnswer
      [] p = "Rejected"  -> MsgPlease
      [] p = "NoContext" -> MsgNoContext
      [] p = "Errored"   -> MsgError

(***************************************************************************)
(* C13: a submission that has ended shows exactly one of the answer, the   *)
(* please-enter-a-question message, the no-context message and the error   *)
(* message, and it is the last line written; before that, and in a run     *)
(* without a submission, none of the four is shown.                        *)
(***************************************************************************)
C13_ExactlyOneOutcome ==
    IF clicked /\ pc \in RunEnded
    THEN /\ Cardinality(OutcomeLines) = 1
         /\ OutcomeLines = { Len(display) }
         /\ LastShown[1] = OutcomeTextOf(pc)
    ELSE OutcomeLines = {}

C13_Witness ==
    /\ clicked
    /\ pc = "Done"
    /\ load_failed # {}
    /\ Len(display) >= 3
    /\ Cardinality(OutcomeLines) = 1

(***************************************************************************)
(* C14: the credential is in the process environment before the chat       *)
(* model and the embedding client are constructed and before any index is  *)
(* opened; without the credential the script stops at its first statement: *)
(* no client is constructed, no index is opened, no question is processed. *)
(***************************************************************************)
C14_CredentialOrdering ==
    /\ pc \notin { "secrets", "Crashed" } => env_key
    /\ ( \/ llm = "built"
         \/ embeddings # "none"
         \/ \E s \in Sources : attempts[s] > 0 ) => env_key /\ secret_present
    /\ ~secret_present =>
          /\ pc \in { "secrets", "Crashed" }
          /\ ~env_key
          /\ llm = "none"
          /\ embeddings = "none"
          /\ \A s \in Sources : attempts[s] = 0
          /\ retrievers = << >>
          /\ ~clicked
          /\ display = << >>
          /\ NoBackendWork

C14_Witness ==
    /\ ~secret_present
    /\ pc = "Crashed"
    /\ run = 2
    /\ llm = "none"

(***************************************************************************)
(* C15: in one run the chat model is called at most once and every         *)
(* retriever of the registry is queried at most once, whether the call     *)
(* succeeds or fails; a source whose load failed is attempted once and     *)
(* never again while the registry is built.                                *)
(***************************************************************************)
C15_NoRetry ==
    /\ Len(llm_calls) <= 1
    /\ \A s \in Sources :
          /\ Len(retriever_calls[s]) <= 1
          /\ s \notin Keys(retrievers) => retriever_calls[s] = << >>
    /\ responses # << >> =>
          \A i \in 1..Len(responses) :
             Len(retriever_calls[responses[i].source]) = 1
    /\ \A s \in load_failed : attempts[s] = 1 /\ s \notin Keys(retrievers)

C15_Witness ==
    /\ pc = "Errored"
    /\ load_failed # {}
    /\ Len(llm_calls) = 1
    /\ llm_calls[1].outcome = Exc
    /\ \E s \in Sources : Len(retriever_calls[s]) = 1

(***************************************************************************)
(* Message texts are atomic strings; "msg contains text" is decided for    *)
(* the shapes a st.write label can take around the text.                   *)
(***************************************************************************)
Affixes == { "", " ", ":" }

Mentions(msg, text) ==
    \E pre \in Affixes, suf \in Affixes : msg = pre \o text \o suf

(***************************************************************************)
(* C16: when constructing the embedding client raises, the script does     *)
(* not crash, no load is attempted, the registry stays empty, and a        *)
(* message containing "Error initializing FAISS retrievers" is shown.      *)
(***************************************************************************)
C16_EmbeddingFailureReported ==
    embeddings = "failed" =>
        /\ pc # "Crashed"
        /\ \A s \in Sources : attempts[s] = 0
        /\ retrievers = << >>
        /\ \E k \in 1..Len(display) :
              Mentions(display[k][1], "Error initializing FAISS retrievers")

(***************************************************************************)
(* C17: the chat model is called only after every retriever of the         *)
(* registry has been queried with the question and has returned, and the   *)
(* assembled context is not blank; the prompt of the call holds exactly    *)
(* that context and, at its end, the question as it was typed.             *)
(***************************************************************************)
C17_RetrievalBeforeGeneration ==
    /\ pc \in { "gate", "retrieve", "assemble", "generate" } => llm_calls = << >>
    /\ llm_calls # << >> =>
          LET prompt == llm_calls[1].prompt
              head   == Len(HumanPrefix) + Len(template_head)
          IN  /\ pc \in { "Done", "Errored" }
              /\ Len(retrievers) > 0
              /\ Len(responses) = Len(retrievers)
              /\ Raisers = {}
              /\ \A i \in 1..Len(retrievers) :
                    /\ responses[i].source = retrievers[i].name
                    /\ retriever_calls[retrievers[i].name]
                          = << [input |-> question] >>
              /\ ~IsBlank(combined_contexts)
              /\ Len(prompt) = head + Len(combined_contexts)
                                  + Len(template_mid) + Len(question)
              /\ SubSeq(prompt, head + 1, head + Len(combined_contexts))
                    = combined_contexts
              /\ SubSeq(prompt, Len(prompt) - Len(question) + 1, Len(prompt))
                    = question

C17_Witness ==
    /\ pc = "Done"
    /\ Len(retrievers) >= 2
    /\ Len(llm_calls) = 1
    /\ Len(question) > 0
    /\ IsBlank(question)

(***************************************************************************)
(* The outcome a submission must have, told from the inputs of its own     *)
(* run only: the question, the registry, what the retrievers did and what  *)
(* the chat model did.                                                     *)
(***************************************************************************)
ExpectedOutcome(q, regs, resp, calls) ==
    IF Len(q) = 0 \/ Len(regs) = 0
    THEN [pc |-> "Rejected", line |-> << MsgPlease >>]
    ELSE IF \E i \in 1..Len(resp) : resp[i].raised
    THEN [pc |-> "Errored", line |-> << MsgError, Exc >>]
    ELSE IF \A i \in 1..Len(resp) : resp[i].docs = << >>
    THEN [pc |-> "NoContext", line |-> << MsgNoContext >>]
    ELSE IF calls # << >> /\ calls[1].outcome = Exc
    THEN [pc |-> "Errored", line |-> << MsgError, Exc >>]
    ELSE IF calls # << >>
    THEN [pc |-> "Done", line |-> << MsgAnswer, calls[1].outcome >>]
    ELSE [pc |-> "generate", line |-> << >>]

HandlerPcs == { "input", "gate", "retrieve", "assemble", "generate" }

(***************************************************************************)
(* C18: no step of the question cycle changes the registry, neither its    *)
(* keys nor its handles, and the way a submission ends and the line it     *)
(* writes are determined by the question, the registry and the responses   *)
(* of the same run, whatever happened earlier in the session.              *)
(***************************************************************************)
C18_NoCrossCycleState ==
    [][ /\ pc \in HandlerPcs => retrievers' = retrievers
        /\ (pc \in HandlerPcs /\ pc' \in RunEnded /\ clicked') =>
              LET want == ExpectedOutcome(question', retrievers', responses',
                                          llm_calls')
              IN  /\ pc' = want.pc
                  /\ display' = Append(display, want.line)
      ]_vars

C18_Witness ==
    /\ asked
    /\ run = 2
    /\ clicked
    /\ pc = "NoContext"
    /\ Len(retrievers) >= 2

(***************************************************************************)
(* C19: when any retriever raises while it is queried, however many do     *)
(* and wherever they stand in the registry, the run ends with the one      *)
(* error message as its only outcome line, the chat model is not called,   *)
(* and nothing of what the other retrievers returned is kept, joined or    *)
(* shown.                                                                  *)
(***************************************************************************)
C19_AnyRetrieverFailureEndsCycle ==
    Raisers # { } =>
        /\ pc = "Errored"
        /\ OutcomeLines = { Len(display) }
        /\ LastShown = << MsgError, Exc >>
        /\ llm_calls = << >>
        /\ contexts = << >>
        /\ combined_contexts = << >>
        /\ \A k \in 1..Len(display) :
              display[k][1] \notin { MsgAnswer, MsgNoContext, MsgPlease }

C19_Witness ==
    /\ pc = "Errored"
    /\ Len(responses) >= 3
    /\ ~responses[1].raised
    /\ responses[1].docs # << >>
    /\ Cardinality(Raisers) >= 2

GatePassedPcs == { "retrieve", "assemble", "generate", "NoContext", "Errored", "Done" }

(***************************************************************************)
(* C20: once a submission is past the test of line 77, retrieval has       *)
(* started exactly when the question has at least one character and the    *)
(* registry at least one entry; otherwise, for an empty question as for    *)
(* an empty registry, the run ends with the one please-enter-a-question    *)
(* message as its only outcome line and neither a retriever nor the chat   *)
(* model is called.                                                        *)
(***************************************************************************)
C20_GateIffQuestionAndRegistry ==
    (clicked /\ pc \in GatePassedPcs \cup { "Rejected" }) =>
        /\ pc \in GatePassedPcs <=> (Len(question) > 0 /\ Len(retrievers) > 0)
        /\ pc \in GatePassedPcs =>
              \A s \in Sources :
                 Len(retriever_calls[s]) = IF s \in Keys(retrievers) /\ pc # "retrieve"
                                           THEN 1 ELSE 0
        /\ pc = "Rejected" =>
              /\ OutcomeLines = { Len(display) }
              /\ LastShown = << MsgPlease >>
              /\ NoBackendWork

C20_Witness ==
    /\ pc = "Rejected"
    /\ clicked
    /\ question = << >>
    /\ Len(retrievers) = NumSources
    /\ LastShown = << MsgPlease >>

====
